---- MODULE Spec2Model ----
(***************************************************************************)
(* Auction / bidding subsystem of ao-platform-backend.                     *)
(*                                                                         *)
(* The relational store (Post and Bid tables of prisma/schema.prisma) is   *)
(* the shared state.  Every express handler is a request that runs as a    *)
(* sequence of atomic store calls (one per `await prisma....`); between    *)
(* two awaits of one request any other request may run, because no handler *)
(* of market.controller.ts opens a transaction.                            *)
(***************************************************************************)
EXTENDS Integers, FiniteSets, Sequences, TLC

\* ---------------------------------------------------------------- bounds
MaxReqs == 2        \* requests that can be in flight at the same time
MaxPosts == 1       \* posts ever created
MaxBids == 2        \* Bid rows ever inserted
MaxAmount == 3      \* largest amount a request can carry (0 is sent too)
MaxStart == 1       \* largest startingPrice a list request can carry
MaxReserve == 3     \* the reservePrice of the list requests that carry one
MaxDuration == 1    \* largest auctionDuration a list request can carry
MaxTime == 2        \* last instant of the wall clock

\* SQL NULL of the nullable columns (Decimal?, DateTime?) and of absent rows
Null == -1

Users == {"S", "A", "B"}
\* the users who send createPost requests
Creators == {"S"}
\* the users who send deleteAccount requests
Leavers == {"S", "A"}
Reqs == 1..MaxReqs
PostIds == 1..MaxPosts
Amounts == 0..MaxAmount
\* the bodies of the moveToMarket requests: the valid ones, with and without
\* a reserve price, one without a price and one without a duration
ListBodies ==
    {[startingPrice |-> sp, reservePrice |-> rp, auctionDuration |-> d] :
        sp \in 1..MaxStart, rp \in {Null, MaxReserve}, d \in 1..MaxDuration}
    \cup {[startingPrice |-> 0, reservePrice |-> Null, auctionDuration |-> 1],
          [startingPrice |-> 1, reservePrice |-> Null, auctionDuration |-> 0]}

\* the list requests that pass the validation of the body
ValidListBodies ==
    {b \in ListBodies : b.startingPrice > 0 /\ b.auctionDuration > 0}

VARIABLES
    users,      \* ids of the User rows
    posts,      \* Post rows
    bids,       \* Bid rows
    nextPostId, \* next fresh Post id (cuid)
    nextBidId,  \* next fresh Bid id (cuid)
    now,        \* wall clock (new Date(), Date.now())
    req,        \* the requests in flight, one per slot
    resp,       \* the response sent by the last step, if it sent one
    script      \* how many requests of the bidding scenario have been sent

vars == <<users, posts, bids, nextPostId, nextBidId, now, req, resp, script>>

\* ------------------------------------------------------------ the store
PostExists(p) == \E x \in posts : x.id = p

PostById(p) == CHOOSE x \in posts : x.id = p

\* the Bid rows read without the postId filter
BidsOfAnyPost(p) == bids

BidsOf(p) == {b \in bids : b.postId = p}

MaxOf(S) == CHOOSE m \in S : \A x \in S : x <= m

\* bids: { orderBy: { amount: "desc" }, take: 1 }: the amount of the row that
\* comes first, Null when the post has no Bid row
MaxBidAmount(p) ==
    IF BidsOf(p) = {} THEN Null ELSE MaxOf({b.amount : b \in BidsOf(p)})

\* ------------------------------------------------------------- requests
Idle ==
    [op |-> "none", pc |-> "idle", userId |-> "S", postId |-> Null,
     amount |-> Null, existing |-> Null, startingPrice |-> Null,
     reservePrice |-> Null, auctionEndAt |-> Null, rows |-> {},
     counts |-> << >>]

NoResponse ==
    [op |-> "none", postId |-> Null, amount |-> Null, result |-> "none"]

\* a new request takes the first slot that is not in use
Free(r) == req[r].pc = "idle" /\ \A q \in 1..(r - 1) : req[q].pc # "idle"

\* res.status(...).json(...); return: the request is over
Respond(r, o, u, p, a, result) ==
    /\ req' = [req EXCEPT ![r] = Idle]
    /\ resp' = [op |-> o, postId |-> p, amount |-> a, result |-> result]

Init ==
    /\ users = Users
    /\ posts = {}
    /\ bids = {}
    /\ nextPostId = 1
    /\ nextBidId = 1
    /\ now = 0
    /\ req = [r \in Reqs |-> Idle]
    /\ resp = NoResponse
    /\ script = 0

\* the wall clock advances
Tick ==
    /\ now < MaxTime
    /\ now' = now + 1
    /\ resp' = NoResponse
    /\ UNCHANGED <<users, posts, bids, nextPostId, nextBidId, req, script>>

\* createPost: prisma.post.create with the market columns at their defaults
CreatePost(r, u) ==
    /\ Free(r)
    /\ u \in users
    /\ nextPostId <= MaxPosts
    /\ posts' = posts \cup
         {[id |-> nextPostId, authorId |-> u, isInMarket |-> FALSE,
           startingPrice |-> Null, reservePrice |-> Null,
           auctionEndAt |-> Null]}
    /\ nextPostId' = nextPostId + 1
    /\ Respond(r, "createPost", u, nextPostId, Null, "created")
    /\ UNCHANGED <<users, bids, nextBidId, now, script>>

\* ------------------------------------------------------------- placeBid
\* if (!amount || amount <= 0)
InvalidAmount(a) == a = 0 \/ a <= 0

\* if (!post.isInMarket)
NotInMarket(post) == ~post.isInMarket

\* the self-bid check left out
SelfBidNever(post, u) == FALSE

\* if (post.authorId === userId)
SelfBid(post, u) == post.authorId = u

\* the expiry check with one clock unit of grace
AuctionEndedGrace(t, endAt) == endAt # Null /\ t > endAt + 1

\* if (post.auctionEndAt && new Date() > post.auctionEndAt)
AuctionEnded(t, endAt) == endAt # Null /\ t > endAt

\* the current highest bid taken from the listing alone
CurrentHighestIgnoresBids(p) == PostById(p).startingPrice

\* the current highest bid raised to the reserve price of the listing
CurrentHighestOrReserve(p) ==
    LET h == IF BidsOf(p) # {} THEN MaxBidAmount(p)
             ELSE PostById(p).startingPrice
    IN  IF PostById(p).reservePrice > h THEN PostById(p).reservePrice ELSE h

\* post.bids[0]?.amount || post.startingPrice
CurrentHighest(p) ==
    IF BidsOf(p) # {} THEN MaxBidAmount(p) ELSE PostById(p).startingPrice

\* the comparison with lt in place of lte
BidTooLowLt(a, highest) == a < (IF highest = Null THEN 0 ELSE highest)

\* new Decimal(amount).lte(currentHighestBid || 0)
BidTooLow(a, highest) == a <= (IF highest = Null THEN 0 ELSE highest)

\* the validation of the body, prisma.post.findUnique with the top bid, and
\* the checks made on what it returned (no await in between)
PlaceBidResult(u, p, a) ==
    IF InvalidAmount(a) THEN "invalid_amount"
    ELSE IF ~PostExists(p) THEN "not_found"
    ELSE IF NotInMarket(PostById(p)) THEN "not_listed"
    ELSE IF SelfBid(PostById(p), u) THEN "self_bid"
    ELSE IF AuctionEnded(now, PostById(p).auctionEndAt) THEN "auction_ended"
    ELSE IF BidTooLow(a, CurrentHighest(p)) THEN "bid_too_low"
    ELSE "pass"

\* placeBid that takes an expired auction off the market while refusing the bid
PlaceBidStartSettles(r, u, p, a) ==
    /\ Free(r)
    /\ u \in users
    /\ IF PlaceBidResult(u, p, a) = "pass"
       THEN /\ req' = [req EXCEPT ![r] =
                      [Idle EXCEPT !.op = "placeBid", !.pc = "findExisting",
                                   !.userId = u, !.postId = p, !.amount = a]]
            /\ resp' = NoResponse
       ELSE Respond(r, "placeBid", u, p, a, PlaceBidResult(u, p, a))
    /\ posts' = IF PlaceBidResult(u, p, a) = "auction_ended"
                THEN {IF x.id = p THEN [x EXCEPT !.isInMarket = FALSE] ELSE x :
                        x \in posts}
                ELSE posts
    /\ UNCHANGED <<users, bids, nextPostId, nextBidId, now>>

PlaceBidStart(r, u, p, a) ==
    /\ Free(r)
    /\ u \in users
    /\ IF PlaceBidResult(u, p, a) = "pass"
       THEN /\ req' = [req EXCEPT ![r] =
                      [Idle EXCEPT !.op = "placeBid", !.pc = "findExisting",
                                   !.userId = u, !.postId = p, !.amount = a]]
            /\ resp' = NoResponse
       ELSE Respond(r, "placeBid", u, p, a, PlaceBidResult(u, p, a))
    /\ UNCHANGED <<users, posts, bids, nextPostId, nextBidId, now>>

\* a placeBid request of a client outside the scenario
PlaceBid(r, u, p, a) == PlaceBidStart(r, u, p, a) /\ UNCHANGED script

\* prisma.bid.findFirst({ where: { postId, bidderId: userId } }): any matching
\* row, or null
PlaceBidFindExisting(r) ==
    /\ req[r].op = "placeBid"
    /\ req[r].pc = "findExisting"
    /\ LET mine == {b \in bids : b.postId = req[r].postId
                                  /\ b.bidderId = req[r].userId}
       IN  \E e \in (IF mine = {} THEN {Null} ELSE {b.id : b \in mine}) :
             req' = [req EXCEPT ![r].pc = "write", ![r].existing = e]
    /\ resp' = NoResponse
    /\ UNCHANGED <<users, posts, bids, nextPostId, nextBidId, now, script>>

\* a re-bid that keeps the old row and adds a new one
PlaceBidUpdateAppends(r) ==
    /\ req[r].op = "placeBid"
    /\ req[r].pc = "write"
    /\ req[r].existing # Null
    /\ nextBidId <= MaxBids
    /\ bids' = bids \cup
         {[id |-> nextBidId, postId |-> req[r].postId,
           bidderId |-> req[r].userId, amount |-> req[r].amount,
           createdAt |-> now]}
    /\ nextBidId' = nextBidId + 1
    /\ Respond(r, "placeBid", req[r].userId, req[r].postId,
               req[r].amount, "accepted")
    /\ UNCHANGED <<users, posts, nextPostId, now, script>>

\* prisma.bid.update({ where: { id: existingBid.id }, data: { amount } });
\* a missing row makes it throw, the catch answers 500
PlaceBidUpdate(r) ==
    /\ req[r].op = "placeBid"
    /\ req[r].pc = "write"
    /\ req[r].existing # Null
    /\ IF \E b \in bids : b.id = req[r].existing
       THEN /\ bids' = {IF b.id = req[r].existing
                        THEN [b EXCEPT !.amount = req[r].amount]
                        ELSE b : b \in bids}
            /\ Respond(r, "placeBid", req[r].userId, req[r].postId,
                       req[r].amount, "accepted")
       ELSE /\ bids' = bids
            /\ Respond(r, "placeBid", req[r].userId, req[r].postId,
                       req[r].amount, "internal_error")
    /\ UNCHANGED <<users, posts, nextPostId, nextBidId, now, script>>

\* prisma.bid.create({ data: { postId, bidderId, amount } }); the foreign keys
\* of Bid to Post and to User make it throw when either row is gone
PlaceBidCreate(r) ==
    /\ req[r].op = "placeBid"
    /\ req[r].pc = "write"
    /\ req[r].existing = Null
    /\ IF PostExists(req[r].postId) /\ req[r].userId \in users
       THEN /\ nextBidId <= MaxBids
            /\ bids' = bids \cup
                 {[id |-> nextBidId, postId |-> req[r].postId,
                   bidderId |-> req[r].userId, amount |-> req[r].amount,
                   createdAt |-> now]}
            /\ nextBidId' = nextBidId + 1
            /\ Respond(r, "placeBid", req[r].userId, req[r].postId,
                       req[r].amount, "accepted")
       ELSE /\ UNCHANGED <<bids, nextBidId>>
            /\ Respond(r, "placeBid", req[r].userId, req[r].postId,
                       req[r].amount, "internal_error")
    /\ UNCHANGED <<users, posts, nextPostId, now, script>>

\* --------------------------------------------------------- moveToMarket
\* if (!startingPrice || startingPrice <= 0)
InvalidPrice(sp) == sp = 0 \/ sp <= 0

\* if (!auctionDuration || auctionDuration <= 0)
InvalidDuration(d) == d = 0 \/ d <= 0

\* the lookup without the authorId filter
OwnedPostAnyone(p, u) == PostExists(p)

\* prisma.post.findFirst({ where: { id: postId, authorId: userId } })
OwnedPost(p, u) == \E x \in posts : x.id = p /\ x.authorId = u

MoveToMarketResult(u, p, sp, d) ==
    IF InvalidPrice(sp) THEN "invalid_price"
    ELSE IF InvalidDuration(d) THEN "invalid_duration"
    ELSE IF ~OwnedPost(p, u) THEN "not_found"
    ELSE IF PostById(p).isInMarket THEN "already_listed"
    ELSE "pass"

\* the end of the auction left out of the update
AuctionEndAtNone(t, d) == Null

\* new Date(Date.now() + auctionDuration * 60 * 60 * 1000), one clock unit
\* being one hour
AuctionEndAt(t, d) == t + d

\* reservePrice ? new Decimal(reservePrice) : null
ReserveOf(rp) == IF rp = Null \/ rp = 0 THEN Null ELSE rp

MoveToMarketStart(r, u, p, sp, rp, d) ==
    /\ Free(r)
    /\ u \in users
    /\ IF MoveToMarketResult(u, p, sp, d) = "pass"
       THEN /\ req' = [req EXCEPT ![r] =
                      [Idle EXCEPT !.op = "moveToMarket", !.pc = "write",
                                   !.userId = u, !.postId = p,
                                   !.startingPrice = sp,
                                   !.reservePrice = ReserveOf(rp),
                                   !.auctionEndAt = AuctionEndAt(now, d)]]
            /\ resp' = NoResponse
       ELSE Respond(r, "moveToMarket", u, p, Null,
                    MoveToMarketResult(u, p, sp, d))
    /\ UNCHANGED <<users, posts, bids, nextPostId, nextBidId, now, script>>

\* prisma.post.update({ where: { id: postId },
\*                      data: { isInMarket: true, ... } })
MoveToMarketWrite(r) ==
    /\ req[r].op = "moveToMarket"
    /\ req[r].pc = "write"
    /\ IF PostExists(req[r].postId)
       THEN /\ posts' = {IF x.id = req[r].postId
                         THEN [x EXCEPT !.isInMarket = TRUE,
                                        !.startingPrice = req[r].startingPrice,
                                        !.reservePrice = req[r].reservePrice,
                                        !.auctionEndAt = req[r].auctionEndAt]
                         ELSE x : x \in posts}
            /\ Respond(r, "moveToMarket", req[r].userId, req[r].postId,
                       Null, "listed")
       ELSE /\ posts' = posts
            /\ Respond(r, "moveToMarket", req[r].userId, req[r].postId,
                       Null, "internal_error")
    /\ UNCHANGED <<users, bids, nextPostId, nextBidId, now, script>>

\* ----------------------------------------------------- removeFromMarket
\* the bid count compared with 1 in place of 0
HasBidsOffByOne(n) == n > 1

\* if (post._count.bids > 0)
HasBids(n) == n > 0

RemoveFromMarketResult(u, p) ==
    IF ~OwnedPost(p, u) THEN "not_found"
    ELSE IF NotInMarket(PostById(p)) THEN "not_listed"
    ELSE IF HasBids(Cardinality(BidsOf(p))) THEN "has_bids"
    ELSE "pass"

RemoveFromMarketStart(r, u, p) ==
    /\ Free(r)
    /\ u \in users
    /\ IF RemoveFromMarketResult(u, p) = "pass"
       THEN /\ req' = [req EXCEPT ![r] =
                      [Idle EXCEPT !.op = "removeFromMarket", !.pc = "write",
                                   !.userId = u, !.postId = p]]
            /\ resp' = NoResponse
       ELSE Respond(r, "removeFromMarket", u, p, Null,
                    RemoveFromMarketResult(u, p))
    /\ UNCHANGED <<users, posts, bids, nextPostId, nextBidId, now, script>>

\* the update without reservePrice: null
UnlistedKeepsReserve(x) ==
    [x EXCEPT !.isInMarket = FALSE, !.startingPrice = Null,
              !.auctionEndAt = Null]

\* data: { isInMarket: false, startingPrice: null, reservePrice: null,
\*         auctionEndAt: null }
Unlisted(x) ==
    [x EXCEPT !.isInMarket = FALSE, !.startingPrice = Null,
              !.reservePrice = Null, !.auctionEndAt = Null]

RemoveFromMarketWrite(r) ==
    /\ req[r].op = "removeFromMarket"
    /\ req[r].pc = "write"
    /\ IF PostExists(req[r].postId)
       THEN /\ posts' = {IF x.id = req[r].postId THEN Unlisted(x) ELSE x :
                         x \in posts}
            /\ Respond(r, "removeFromMarket", req[r].userId, req[r].postId,
                       Null, "unlisted")
       ELSE /\ posts' = posts
            /\ Respond(r, "removeFromMarket", req[r].userId, req[r].postId,
                       Null, "internal_error")
    /\ UNCHANGED <<users, bids, nextPostId, nextBidId, now, script>>

\* -------------------------------------------------------- deleteAccount
\* prisma.user.findUnique and bcrypt.compare: pwOk says whether the password
\* of the body is the user's
DeleteAccountStart(r, u, pwOk) ==
    /\ Free(r)
    /\ u \in users
    /\ IF pwOk
       THEN /\ req' = [req EXCEPT ![r] =
                         [Idle EXCEPT !.op = "deleteAccount", !.pc = "write",
                                      !.userId = u]]
            /\ resp' = NoResponse
       ELSE Respond(r, "deleteAccount", u, Null, Null, "incorrect_password")
    /\ UNCHANGED <<users, posts, bids, nextPostId, nextBidId, now, script>>

\* the Bid rows left once bid.deleteMany({ where: { bidderId } }) has run
BidsWithout(u) == {b \in bids : b.bidderId # u}

\* post.deleteMany({ where: { authorId } }) breaks the foreign key of a Bid row
\* that another user holds on one of the posts
PostsHeld(u) ==
    \E b \in BidsWithout(u) : \E x \in posts : x.id = b.postId /\ x.authorId = u

\* prisma.$transaction([... bid.deleteMany, ... post.deleteMany, user.delete]):
\* all of it or, when a statement throws, none of it; fk says whether a row
\* outside the auction tables (a like, a comment) still references the user's
\* rows
DeleteAccountTransaction(r, fk) ==
    /\ req[r].op = "deleteAccount"
    /\ req[r].pc = "write"
    /\ IF req[r].userId \in users /\ ~PostsHeld(req[r].userId) /\ ~fk
       THEN /\ bids' = BidsWithout(req[r].userId)
            /\ posts' = {x \in posts : x.authorId # req[r].userId}
            /\ users' = users \ {req[r].userId}
            /\ Respond(r, "deleteAccount", req[r].userId, Null, Null, "deleted")
       ELSE /\ UNCHANGED <<users, posts, bids>>
            /\ Respond(r, "deleteAccount", req[r].userId, Null, Null,
                       "internal_error")
    /\ UNCHANGED <<nextPostId, nextBidId, now, script>>

\* ----------------------------------------------------------- deletePost
\* prisma.post.findFirst({ where: { id: postId, authorId: userId } }); a post
\* in market goes on to the count of its bids, any other post straight to the
\* deletion
DeletePostStart(r, u, p) ==
    /\ Free(r)
    /\ u \in users
    /\ IF ~OwnedPost(p, u)
       THEN Respond(r, "deletePost", u, p, Null, "not_found")
       ELSE /\ req' = [req EXCEPT ![r] =
                         [Idle EXCEPT !.op = "deletePost",
                                      !.pc = IF PostById(p).isInMarket
                                             THEN "count" ELSE "comments",
                                      !.userId = u, !.postId = p]]
            /\ resp' = NoResponse
    /\ UNCHANGED <<users, posts, bids, nextPostId, nextBidId, now, script>>

\* prisma.bid.count({ where: { postId } }); if (bidCount > 0) 400
DeletePostCount(r) ==
    /\ req[r].op = "deletePost"
    /\ req[r].pc = "count"
    /\ IF Cardinality(BidsOf(req[r].postId)) > 0
       THEN Respond(r, "deletePost", req[r].userId, req[r].postId, Null,
                    "has_bids")
       ELSE /\ req' = [req EXCEPT ![r].pc = "comments"]
            /\ resp' = NoResponse
    /\ UNCHANGED <<users, posts, bids, nextPostId, nextBidId, now, script>>

\* prisma.comment.findMany({ where: { postId }, select: { id: true } })
DeletePostFindComments(r) ==
    /\ req[r].op = "deletePost"
    /\ req[r].pc = "comments"
    /\ req' = [req EXCEPT ![r].pc = "transaction"]
    /\ resp' = NoResponse
    /\ UNCHANGED <<users, posts, bids, nextPostId, nextBidId, now, script>>

\* prisma.$transaction([commentLike.deleteMany, comment.deleteMany,
\* bid.deleteMany({ where: { postId } }), post.delete({ where: { id } })]):
\* all of it or, when post.delete throws, none of it; fk says whether a row
\* the transaction does not delete (a like) still references the post
DeletePostTransaction(r, fk) ==
    /\ req[r].op = "deletePost"
    /\ req[r].pc = "transaction"
    /\ IF PostExists(req[r].postId) /\ ~fk
       THEN /\ bids' = {b \in bids : b.postId # req[r].postId}
            /\ posts' = {x \in posts : x.id # req[r].postId}
            /\ Respond(r, "deletePost", req[r].userId, req[r].postId, Null,
                       "deleted")
       ELSE /\ UNCHANGED <<posts, bids>>
            /\ Respond(r, "deletePost", req[r].userId, req[r].postId, Null,
                       "internal_error")
    /\ UNCHANGED <<users, nextPostId, nextBidId, now, script>>

\* ------------------------------------------------------------ the reads
\* the values of the status parameter of getMarketPosts and getUserBids
Statuses == {"all", "active", "ended"}

BidById(i) == CHOOSE b \in bids : b.id = i

\* bids: { orderBy: { amount: "desc" }, take: 1 }: no second sort key, the
\* store may return any of the rows that hold the maximum amount
TopBids(p) == {b \in BidsOf(p) : b.amount = MaxBidAmount(p)}

\* one choice of the store for every post: the id of the row it returns first
\* under orderBy amount desc, Null for a post without Bid rows
TopChoices ==
    {f \in [PostIds -> {b.id : b \in bids} \cup {Null}] :
        \A p \in PostIds :
            IF BidsOf(p) = {} THEN f[p] = Null
            ELSE f[p] \in {b.id : b \in TopBids(p)}}

\* createdAt of b is later than createdAt of c: ids are handed out in the
\* order of the inserts, which orders the rows created in one clock unit
Newer(b, c) ==
    \/ b.createdAt > c.createdAt
    \/ b.createdAt = c.createdAt /\ b.id > c.id

\* bids: { orderBy: { createdAt: "desc" } }, then post.bids[0]
NewestBid(p) ==
    CHOOSE b \in BidsOf(p) : \A c \in BidsOf(p) \ {b} : Newer(b, c)

\* where.auctionEndAt = { gt: new Date() } / { lt: new Date() } / no filter
StatusMatches(status, endAt, t) ==
    IF status = "active" THEN endAt # Null /\ endAt > t
    ELSE IF status = "ended" THEN endAt # Null /\ endAt < t
    ELSE TRUE

\* the difference without the floor at zero
TimeLeftSigned(endAt, t) == IF endAt = Null THEN 0 ELSE endAt - t

\* post.auctionEndAt ? Math.max(0, auctionEndAt.getTime() - Date.now()) : 0
TimeLeft(endAt, t) ==
    IF endAt = Null THEN 0 ELSE IF endAt - t > 0 THEN endAt - t ELSE 0

\* getAuctionDetails: one findUnique with the bids newest first, the checks
\* and the answer
GetAuctionDetails(p) ==
    /\ resp' =
         IF ~PostExists(p)
         THEN [op |-> "getAuctionDetails", postId |-> p, amount |-> Null,
               result |-> "not_found"]
         ELSE IF NotInMarket(PostById(p))
         THEN [op |-> "getAuctionDetails", postId |-> p, amount |-> Null,
               result |-> "not_listed"]
         ELSE [op |-> "getAuctionDetails", postId |-> p, amount |-> Null,
               result |-> "ok",
               currentBid |-> IF BidsOf(p) # {} THEN NewestBid(p).amount
                              ELSE PostById(p).startingPrice,
               highestBidder |-> IF BidsOf(p) # {} THEN NewestBid(p).bidderId
                                 ELSE "none",
               isActive |-> TimeLeft(PostById(p).auctionEndAt, now) > 0]
    /\ UNCHANGED <<users, posts, bids, nextPostId, nextBidId, now, req, script>>

\* getPurchasedImage: prisma.post.findUnique({ where: { id: postId },
\* include: { author, bids: { where: { bidderId: userId }, take: 1 } } });
\* isOwner = userId === post.author.id; hasPurchased = post.bids.length > 0;
\* 403 if (!isOwner && !hasPurchased)
GetPurchasedImage(u, p) ==
    /\ u \in users
    /\ resp' =
         [op |-> "getPurchasedImage", postId |-> p, amount |-> Null,
          userId |-> u,
          result |->
            IF ~PostExists(p) THEN "not_found"
            ELSE IF PostById(p).authorId # u
                    /\ {b \in BidsOf(p) : b.bidderId = u} = {}
                 THEN "forbidden"
            ELSE "granted"]
    /\ UNCHANGED <<users, posts, bids, nextPostId, nextBidId, now, req, script>>

\* getMarketPosts: prisma.post.findMany({ where: { isInMarket: true, ... },
\* include: { bids: { orderBy: { amount: "desc" }, take: 1 } } })
GetMarketPostsFind(r, status) ==
    /\ Free(r)
    /\ \E top \in TopChoices :
         req' = [req EXCEPT ![r] =
           [Idle EXCEPT
              !.op = "getMarketPosts", !.pc = "count",
              !.rows =
                {[postId |-> x.id, topId |-> top[x.id],
                  currentBid |-> IF top[x.id] # Null
                                 THEN BidById(top[x.id]).amount
                                 ELSE x.startingPrice,
                  highestBidder |-> IF top[x.id] # Null
                                    THEN BidById(top[x.id]).bidderId
                                    ELSE "none",
                  auctionEndAt |-> x.auctionEndAt] :
                 x \in {y \in posts :
                          y.isInMarket
                          /\ StatusMatches(status, y.auctionEndAt, now)}}]]
    /\ resp' = NoResponse
    /\ UNCHANGED <<users, posts, bids, nextPostId, nextBidId, now, script>>

\* prisma.post.count({ where }), then the answer: timeLeft is computed from
\* Date.now() of this moment
GetMarketPostsRespond(r) ==
    /\ req[r].op = "getMarketPosts"
    /\ req[r].pc = "count"
    /\ req' = [req EXCEPT ![r] = Idle]
    /\ resp' = [op |-> "getMarketPosts", postId |-> Null, amount |-> Null,
                result |-> "ok",
                posts |-> {[postId |-> row.postId, topId |-> row.topId,
                            currentBid |-> row.currentBid,
                            highestBidder |-> row.highestBidder,
                            timeLeft |-> TimeLeft(row.auctionEndAt, now)] :
                           row \in req[r].rows}]
    /\ UNCHANGED <<users, posts, bids, nextPostId, nextBidId, now, script>>

\* getUserBids: prisma.bid.findMany({ where: { bidderId: userId, ... },
\* include: { post: { include: { bids: { orderBy: { amount: "desc" },
\* take: 1 } } } } })
GetUserBidsFind(r, u, status) ==
    /\ Free(r)
    /\ u \in users
    /\ \E top \in TopChoices :
         req' = [req EXCEPT ![r] =
           [Idle EXCEPT
              !.op = "getUserBids", !.pc = "count", !.userId = u,
              !.rows =
                {[id |-> b.id, postId |-> b.postId, amount |-> b.amount,
                  topId |-> top[b.postId],
                  topBidderId |-> BidById(top[b.postId]).bidderId,
                  auctionEndAt |-> PostById(b.postId).auctionEndAt] :
                 b \in {c \in bids :
                          c.bidderId = u
                          /\ StatusMatches(status,
                                PostById(c.postId).auctionEndAt, now)}}]]
    /\ resp' = NoResponse
    /\ UNCHANGED <<users, posts, bids, nextPostId, nextBidId, now, script>>

\* new Date() > bid.post.auctionEndAt, false without an auctionEndAt
UserBidAuctionEnded(t, endAt) == endAt # Null /\ t > endAt

\* prisma.bid.count({ where }), then bids.map(...) and the answer
GetUserBidsRespond(r) ==
    /\ req[r].op = "getUserBids"
    /\ req[r].pc = "count"
    /\ req' = [req EXCEPT ![r] = Idle]
    /\ resp' = [op |-> "getUserBids", postId |-> Null, amount |-> Null,
                result |-> "ok",
                bids |-> {[id |-> row.id, postId |-> row.postId,
                           amount |-> row.amount, topId |-> row.topId,
                           isWinning |-> row.topBidderId = req[r].userId,
                           hasWon |->
                              UserBidAuctionEnded(now, row.auctionEndAt)
                              /\ row.topBidderId = req[r].userId,
                           auctionStatus |->
                              IF UserBidAuctionEnded(now, row.auctionEndAt)
                              THEN "ended" ELSE "active"] :
                          row \in req[r].rows}]
    /\ UNCHANGED <<users, posts, bids, nextPostId, nextBidId, now, script>>

Next ==
    \/ Tick
    \/ \E r \in Reqs, u \in Creators : CreatePost(r, u)
    \/ \E r \in Reqs, u \in Users, p \in PostIds, a \in Amounts :
          PlaceBid(r, u, p, a)
    \/ \E r \in Reqs : PlaceBidFindExisting(r)
    \/ \E r \in Reqs : PlaceBidUpdate(r)
    \/ \E r \in Reqs : PlaceBidCreate(r)
    \/ \E r \in Reqs, u \in Users, p \in PostIds, b \in ListBodies :
          MoveToMarketStart(r, u, p, b.startingPrice, b.reservePrice,
                            b.auctionDuration)
    \/ \E r \in Reqs : MoveToMarketWrite(r)
    \/ \E r \in Reqs, u \in Users, p \in PostIds :
          RemoveFromMarketStart(r, u, p)
    \/ \E r \in Reqs : RemoveFromMarketWrite(r)

\* the market and the creation of posts
Spec == Init /\ [][Next]_vars

NextAccounts ==
    \/ Next
    \/ \E r \in Reqs, u \in Leavers, pwOk \in BOOLEAN :
          DeleteAccountStart(r, u, pwOk)
    \/ \E r \in Reqs, fk \in BOOLEAN : DeleteAccountTransaction(r, fk)

\* the market, the creation of posts and the deletion of accounts
SpecAccounts == Init /\ [][NextAccounts]_vars

\* the requests that fill the store (posts are listed once, with a valid body,
\* and bid on) and the readers, in any interleaving
NextReads ==
    \/ Tick
    \/ \E r \in Reqs, u \in Creators : CreatePost(r, u)
    \/ \E r \in Reqs, u \in Creators, p \in PostIds :
          \E b \in {x \in ValidListBodies : x.reservePrice = Null} :
            MoveToMarketStart(r, u, p, b.startingPrice, b.reservePrice,
                              b.auctionDuration)
    \/ \E r \in Reqs : MoveToMarketWrite(r)
    \/ \E r \in Reqs, u \in Users, p \in PostIds, a \in Amounts :
          PlaceBid(r, u, p, a)
    \/ \E r \in Reqs : PlaceBidFindExisting(r)
    \/ \E r \in Reqs : PlaceBidUpdate(r)
    \/ \E r \in Reqs : PlaceBidCreate(r)
    \/ \E p \in PostIds : GetAuctionDetails(p)
    \/ \E r \in Reqs, st \in Statuses : GetMarketPostsFind(r, st)
    \/ \E r \in Reqs : GetMarketPostsRespond(r)
    \/ \E r \in Reqs, u \in Users, st \in Statuses : GetUserBidsFind(r, u, st)
    \/ \E r \in Reqs : GetUserBidsRespond(r)

\* the market and its readers
SpecReads == Init /\ [][NextReads]_vars

\* --------------------------------------------------- the bidding scenario
\* list post P with startingPrice 100 and a duration of one hour
ScenarioListing ==
    [startingPrice |-> 100, reservePrice |-> Null, auctionDuration |-> 1]

\* the placeBid requests on P, in the order in which they are sent
ScenarioBids ==
    << [userId |-> "A", amount |-> 150], [userId |-> "B", amount |-> 150],
       [userId |-> "B", amount |-> 151], [userId |-> "A", amount |-> 140],
       [userId |-> "A", amount |-> 200] >>

\* no request is in flight: the client sends a request when the one before
\* it has been answered
Quiet == \A r \in Reqs : req[r].pc = "idle"

\* the next placeBid request of the scenario
ScenarioBid(r) ==
    /\ Quiet
    /\ script < Len(ScenarioBids)
    /\ \E x \in posts : x.isInMarket /\ x.id = 1
    /\ PlaceBidStart(r, ScenarioBids[script + 1].userId, 1,
                     ScenarioBids[script + 1].amount)
    /\ script' = script + 1

\* the bids of the scenario are sent within the hour of the auction: the
\* clock moves before P is listed and after the last bid
ScenarioTick ==
    /\ Quiet
    /\ script = Len(ScenarioBids) \/ \A x \in posts : ~x.isInMarket
    /\ Tick

NextScenario ==
    \/ ScenarioTick
    \/ \E r \in Reqs : Quiet /\ CreatePost(r, "S")
    \/ \E r \in Reqs, p \in PostIds :
          /\ Quiet
          /\ MoveToMarketStart(r, "S", p, ScenarioListing.startingPrice,
                               ScenarioListing.reservePrice,
                               ScenarioListing.auctionDuration)
    \/ \E r \in Reqs : MoveToMarketWrite(r)
    \/ \E r \in Reqs : ScenarioBid(r)
    \/ \E r \in Reqs : PlaceBidFindExisting(r)
    \/ \E r \in Reqs : PlaceBidUpdate(r)
    \/ \E r \in Reqs : PlaceBidCreate(r)
    \/ \E p \in PostIds : Quiet /\ GetAuctionDetails(p)
    \/ \E r \in Reqs, st \in Statuses : Quiet /\ GetMarketPostsFind(r, st)
    \/ \E r \in Reqs : GetMarketPostsRespond(r)
    \/ \E r \in Reqs, u \in Users, st \in Statuses :
          Quiet /\ GetUserBidsFind(r, u, st)
    \/ \E r \in Reqs : GetUserBidsRespond(r)
    \/ \E u \in Users, p \in PostIds : Quiet /\ GetPurchasedImage(u, p)

\* the scenario: one client at a time, readers in between
SpecScenario == Init /\ [][NextScenario]_vars

\* ------------------------------------------------------- getMarketStats
\* prisma.post.count({ where: { isInMarket: true,
\*                              auctionEndAt: { gt: new Date() } } })
GetMarketStatsCountActive(r) ==
    /\ Free(r)
    /\ req' = [req EXCEPT ![r] =
         [Idle EXCEPT
            !.op = "getMarketStats", !.pc = "countEnded",
            !.counts = << Cardinality({x \in posts :
                            x.isInMarket
                            /\ StatusMatches("active", x.auctionEndAt, now)}) >>]]
    /\ resp' = NoResponse
    /\ UNCHANGED <<users, posts, bids, nextPostId, nextBidId, now, script>>

\* prisma.post.count({ where: { isInMarket: true,
\*                              auctionEndAt: { lt: new Date() } } })
GetMarketStatsCountEnded(r) ==
    /\ req[r].op = "getMarketStats"
    /\ req[r].pc = "countEnded"
    /\ req' = [req EXCEPT
         ![r].pc = "countBids",
         ![r].counts = Append(req[r].counts,
             Cardinality({x \in posts :
                x.isInMarket
                /\ StatusMatches("ended", x.auctionEndAt, now)}))]
    /\ resp' = NoResponse
    /\ UNCHANGED <<users, posts, bids, nextPostId, nextBidId, now, script>>

\* prisma.bid.count()
GetMarketStatsCountBids(r) ==
    /\ req[r].op = "getMarketStats"
    /\ req[r].pc = "countBids"
    /\ req' = [req EXCEPT
         ![r].pc = "highestSale",
         ![r].counts = Append(req[r].counts, Cardinality(bids))]
    /\ resp' = NoResponse
    /\ UNCHANGED <<users, posts, bids, nextPostId, nextBidId, now, script>>

\* the ranking by the largest bid amount
SaleCandidatesByAmount(E) ==
    {x \in E : \A y \in E : MaxBidAmount(y.id) <= MaxBidAmount(x.id)}

\* orderBy: { bids: { _count: "desc" } } with findFirst: a post of E with the
\* largest number of Bid rows, any of them when several have it
SaleCandidates(E) ==
    {x \in E : \A y \in E :
        Cardinality(BidsOf(y.id)) <= Cardinality(BidsOf(x.id))}

\* highestSale: null
NoSale == [postId |-> Null, finalPrice |-> Null]

\* prisma.post.findFirst({ where: { isInMarket: true,
\*   auctionEndAt: { lt: new Date() } }, include: { bids: { orderBy:
\*   { amount: "desc" }, take: 1 } }, orderBy: { bids: { _count: "desc" } } }),
\* then the answer with finalPrice: highestSale.bids[0]?.amount || 0
GetMarketStatsHighestSale(r) ==
    /\ req[r].op = "getMarketStats"
    /\ req[r].pc = "highestSale"
    /\ LET ended == {x \in posts :
                       x.isInMarket
                       /\ StatusMatches("ended", x.auctionEndAt, now)}
       IN  \E sale \in (IF ended = {} THEN {NoSale}
                         ELSE {[postId |-> x.id,
                                finalPrice |-> IF BidsOf(x.id) = {} THEN 0
                                               ELSE MaxBidAmount(x.id)] :
                               x \in SaleCandidates(ended)}) :
             resp' = [op |-> "getMarketStats", postId |-> Null,
                      amount |-> Null, result |-> "ok",
                      activeAuctions |-> req[r].counts[1],
                      endedAuctions |-> req[r].counts[2],
                      totalBids |-> req[r].counts[3],
                      highestSale |-> sale]
    /\ req' = [req EXCEPT ![r] = Idle]
    /\ UNCHANGED <<users, posts, bids, nextPostId, nextBidId, now, script>>

\* the stores the statistics are computed on: the posts of S, each of them
\* as created or listed at some instant for one clock unit, and on a listed
\* post at most one Bid row of A and one of B, of different amounts above the
\* starting price, placed at the instant of the listing
StatsPostIds == 1..(MaxPosts + 1)

StatsAmounts == (MaxStart + 1)..(MaxAmount + 1)

StatsBidders == {"A", "B"}

\* for every post: Null (as created) or the instant of its listing
StatsListings == [StatsPostIds -> {Null} \cup (0..(MaxTime - 1))]

\* for every post and bidder: Null (no row) or the amount of the row
StatsAmountsOf(listedAt) ==
    {f \in [StatsPostIds \X StatsBidders -> {Null} \cup StatsAmounts] :
        \A p \in StatsPostIds :
            /\ listedAt[p] = Null
                 => \A u \in StatsBidders : f[<<p, u>>] = Null
            /\ f[<<p, "A">>] # Null => f[<<p, "A">>] # f[<<p, "B">>]}

StatsBidId(p, u) == 2 * (p - 1) + (IF u = "A" THEN 1 ELSE 2)

InitStats ==
    \E listedAt \in StatsListings :
      \E amountOf \in StatsAmountsOf(listedAt) :
        /\ users = Users
        /\ posts =
             {[id |-> p, authorId |-> "S", isInMarket |-> listedAt[p] # Null,
               startingPrice |-> IF listedAt[p] # Null THEN MaxStart ELSE Null,
               reservePrice |-> Null,
               auctionEndAt |-> IF listedAt[p] # Null
                                THEN AuctionEndAt(listedAt[p], 1)
                                ELSE Null] : p \in StatsPostIds}
        /\ bids =
             {[id |-> StatsBidId(pu[1], pu[2]), postId |-> pu[1],
               bidderId |-> pu[2], amount |-> amountOf[pu],
               createdAt |-> listedAt[pu[1]]] :
              pu \in {q \in StatsPostIds \X StatsBidders :
                        amountOf[q] # Null}}
        /\ nextPostId = MaxPosts + 2
        /\ nextBidId = 2 * (MaxPosts + 1) + 1
        /\ now = MaxTime - 1
        /\ req = [r \in Reqs |-> Idle]
        /\ resp = NoResponse
        /\ script = 0

NextStats ==
    \/ Tick
    \/ \E r \in Reqs : GetMarketStatsCountActive(r)
    \/ \E r \in Reqs : GetMarketStatsCountEnded(r)
    \/ \E r \in Reqs : GetMarketStatsCountBids(r)
    \/ \E r \in Reqs : GetMarketStatsHighestSale(r)

\* the statistics, computed on every store of InitStats while time passes
SpecStats == InitStats /\ [][NextStats]_vars

\* ------------------------------------------- listings at different prices
\* list requests without reserve price, at the lowest and at the highest
\* starting price
PriceBodies ==
    {[startingPrice |-> sp, reservePrice |-> Null,
      auctionDuration |-> MaxDuration] : sp \in {MaxStart, MaxAmount}}

NextPrices ==
    \/ \E r \in Reqs, u \in Creators : CreatePost(r, u)
    \/ \E r \in Reqs, u \in Creators, p \in PostIds, b \in PriceBodies :
          MoveToMarketStart(r, u, p, b.startingPrice, b.reservePrice,
                            b.auctionDuration)
    \/ \E r \in Reqs : MoveToMarketWrite(r)
    \/ \E r \in Reqs, u \in Users, p \in PostIds, a \in Amounts :
          PlaceBid(r, u, p, a)
    \/ \E r \in Reqs : PlaceBidFindExisting(r)
    \/ \E r \in Reqs : PlaceBidUpdate(r)
    \/ \E r \in Reqs : PlaceBidCreate(r)
    \/ \E r \in Reqs, u \in Creators, p \in PostIds :
          RemoveFromMarketStart(r, u, p)
    \/ \E r \in Reqs : RemoveFromMarketWrite(r)

\* list, unlist and placeBid requests within the hour of the auction
SpecPrices == Init /\ [][NextPrices]_vars

\* ------------------------------------------------- the deletion of posts
NextPosts ==
    \/ \E r \in Reqs, u \in Creators : CreatePost(r, u)
    \/ \E r \in Reqs, u \in Creators, p \in PostIds :
          \E b \in {x \in ValidListBodies : x.reservePrice = Null} :
            MoveToMarketStart(r, u, p, b.startingPrice, b.reservePrice,
                              b.auctionDuration)
    \/ \E r \in Reqs : MoveToMarketWrite(r)
    \/ \E r \in Reqs, u \in Users, p \in PostIds, a \in Amounts :
          PlaceBid(r, u, p, a)
    \/ \E r \in Reqs : PlaceBidFindExisting(r)
    \/ \E r \in Reqs : PlaceBidUpdate(r)
    \/ \E r \in Reqs : PlaceBidCreate(r)
    \/ \E r \in Reqs, u \in Creators, p \in PostIds :
          RemoveFromMarketStart(r, u, p)
    \/ \E r \in Reqs : RemoveFromMarketWrite(r)
    \/ \E r \in Reqs, u \in Users, p \in PostIds : DeletePostStart(r, u, p)
    \/ \E r \in Reqs : DeletePostCount(r)
    \/ \E r \in Reqs : DeletePostFindComments(r)
    \/ \E r \in Reqs, fk \in BOOLEAN : DeletePostTransaction(r, fk)

\* list, unlist, placeBid and deletePost requests within the hour of the
\* auction
SpecPosts == Init /\ [][NextPosts]_vars

\* ------------------------------------------------- two posts side by side
PairPostIds == 1..(MaxPosts + 1)

\* the amounts of the bids on the two posts: none, and those above the
\* starting price
PairAmounts == {0} \cup ((MaxStart + 1)..MaxAmount)

\* which of the two posts are in market (the second always is), and which of
\* those hold a bid of A
PairStores ==
    {st \in [listed : [PairPostIds -> BOOLEAN], held : [PairPostIds -> BOOLEAN]] :
        /\ st.listed[MaxPosts + 1]
        /\ \A p \in PairPostIds : st.held[p] => st.listed[p]}

\* two posts of S, each listed at time 0 or not listed, a listed one with or
\* without a Bid row of A made at time 0; the clock stands one unit before
\* its bound
InitPair ==
    \E st \in PairStores :
        /\ users = Users
        /\ posts =
             {[id |-> p, authorId |-> "S", isInMarket |-> st.listed[p],
               startingPrice |-> IF st.listed[p] THEN MaxStart ELSE Null,
               reservePrice |-> Null,
               auctionEndAt |-> IF st.listed[p]
                                THEN AuctionEndAt(0, MaxDuration)
                                ELSE Null] : p \in PairPostIds}
        /\ bids =
             {[id |-> Cardinality({q \in 1..p : st.held[q]}), postId |-> p,
               bidderId |-> "A", amount |-> MaxStart + 1, createdAt |-> 0] :
              p \in {q \in PairPostIds : st.held[q]}}
        /\ nextPostId = MaxPosts + 2
        /\ nextBidId = Cardinality({q \in PairPostIds : st.held[q]}) + 1
        /\ now = MaxTime - 1
        /\ req = [r \in Reqs |-> Idle]
        /\ resp = NoResponse
        /\ script = 0

NextPair ==
    \/ Tick
    \/ \E r \in Reqs, u \in Users, p \in PairPostIds, a \in PairAmounts :
          PlaceBid(r, u, p, a)
    \/ \E r \in Reqs : PlaceBidFindExisting(r)
    \/ \E r \in Reqs : PlaceBidUpdate(r)
    \/ \E r \in Reqs : PlaceBidCreate(r)

\* bids on two posts at the same time
SpecPair == InitPair /\ [][NextPair]_vars

\* ================================================================ claims
ListedPost(p) == PostExists(p) /\ PostById(p).isInMarket

\* the answers of placeBid that refuse the bid
Rejections ==
    {"invalid_amount", "not_found", "not_listed", "self_bid", "auction_ended",
     "bid_too_low"}

\* a placeBid request that has read the current highest bid and has not yet
\* written its Bid row
InPlaceBid(r) ==
    req[r].op = "placeBid" /\ req[r].pc \in {"findExisting", "write"}

\* a step in which placeBid takes up a request: it answers at once (no slot
\* changes) or the slot goes on to the lookup of the bidder's own row
PlaceBidArrives ==
    \/ resp'.op = "placeBid" /\ req' = req
    \/ \E r \in Reqs : req[r].pc = "idle" /\ req'[r].pc = "findExisting"

\* a step of removeFromMarket: its read and checks, or its write
RemoveFromMarketSteps ==
    \/ resp'.op = "removeFromMarket"
    \/ \E r \in Reqs : req[r].pc = "idle" /\ req'[r].op = "removeFromMarket"

\* C1: the read-compare-write sequences of two placeBid requests on the same
\* post never interleave: no two requests on one post are at the same time
\* between their read of the current highest bid and their write.
C1_PlaceBidSerialized ==
    \A r1 \in Reqs, r2 \in Reqs :
        (r1 # r2 /\ InPlaceBid(r1) /\ InPlaceBid(r2))
            => req[r1].postId # req[r2].postId

\* C2: no step of a placeBid request lowers the maximum amount stored in the
\* Bid rows of a post.
C2_StoredMaxNeverDecreases ==
    [][resp'.op = "placeBid"
         => \A p \in PostIds : MaxBidAmount(p)' >= MaxBidAmount(p)]_vars

\* C3: in every state there is at most one Bid row for each (post, bidder).
C3_OneBidPerBidder ==
    \A b1 \in bids, b2 \in bids :
        (b1.postId = b2.postId /\ b1.bidderId = b2.bidderId) => b1 = b2

\* C4: every amount that placeBid writes (a new row or a changed row) is
\* strictly greater than every amount stored at that moment in the rows of
\* the other bidders on the post.
C4_WrittenAboveOthers ==
    [][\A w \in bids' \ bids : \A b \in bids :
          (b.postId = w.postId /\ b.bidderId # w.bidderId)
              => w.amount > b.amount]_vars

\* C5: in every state no Bid row exists for a post whose isInMarket is false.
C5_NoBidOnUnlistedPost ==
    \A b \in bids : PostExists(b.postId) => PostById(b.postId).isInMarket

\* C6: a placeBid whose amount equals the current highest of a listed post
\* (the stored maximum, or startingPrice without bids) is refused and writes
\* nothing; the refusal is bid_too_low whenever the request reaches that check
\* (the bidder is not the author and the auction has not ended).
C6_EqualBidRejected ==
    [][PlaceBidArrives =>
       \A p \in PostIds : ListedPost(p) =>
         \A r \in Reqs, u \in Users :
           PlaceBidStart(r, u, p, CurrentHighest(p))
              => /\ resp'.op = "placeBid"
                 /\ resp'.result \in Rejections
                 /\ bids' = bids
                 /\ (~SelfBid(PostById(p), u)
                      /\ ~(now > PostById(p).auctionEndAt))
                        => resp'.result = "bid_too_low"]_vars

\* C6 witness: a bid equal to the maximum stored bid amount was just refused
\* with bid_too_low.
C6_Witness ==
    /\ resp.op = "placeBid"
    /\ resp.result = "bid_too_low"
    /\ ListedPost(resp.postId)
    /\ BidsOf(resp.postId) # {}
    /\ resp.amount = MaxBidAmount(resp.postId)

\* C7: a placeBid that arrives after auctionEndAt of a listed post is refused
\* and writes nothing, with or without bids on the post; the refusal is
\* auction_ended whenever the request reaches that check (a valid amount, the
\* bidder is not the author).
C7_LateBidRejected ==
    [][PlaceBidArrives =>
       \A p \in PostIds : (ListedPost(p) /\ now > PostById(p).auctionEndAt) =>
         \A r \in Reqs, u \in Users, a \in Amounts :
           PlaceBidStart(r, u, p, a)
              => /\ resp'.op = "placeBid"
                 /\ resp'.result \in Rejections
                 /\ bids' = bids
                 /\ (~InvalidAmount(a) /\ ~SelfBid(PostById(p), u))
                        => resp'.result = "auction_ended"]_vars

\* C7 witness: the only bid ever attempted on a post came after its
\* auctionEndAt and was refused with auction_ended.
C7_Witness ==
    /\ resp.op = "placeBid"
    /\ resp.result = "auction_ended"
    /\ ListedPost(resp.postId)
    /\ now > PostById(resp.postId).auctionEndAt
    /\ nextBidId = 1
    /\ bids = {}

\* C8: no Bid row is inserted or changed at an instant now >= auctionEndAt of
\* its post, and a placeBid evaluated at now = auctionEndAt (a bid that nothing
\* else refuses: a valid amount above the current highest, not the author's)
\* is refused with auction_ended.
C8_StrictExpiryAtWrite ==
    [][/\ \A w \in bids' \ bids :
             (PostExists(w.postId) /\ PostById(w.postId).auctionEndAt # Null)
                 => now < PostById(w.postId).auctionEndAt
       /\ PlaceBidArrives =>
           \A p \in PostIds :
             (ListedPost(p) /\ now = PostById(p).auctionEndAt) =>
               \A r \in Reqs, u \in Users, a \in Amounts :
                 (~InvalidAmount(a) /\ ~SelfBid(PostById(p), u)
                    /\ a > CurrentHighest(p)
                    /\ PlaceBidStart(r, u, p, a))
                     => resp'.result = "auction_ended"]_vars

\* C9 as stated: placeBid by the author of a listed post is refused with
\* self_bid for every amount, zero and negative amounts included, and writes
\* no Bid row.
C9_SelfBidForEveryAmount ==
    [][PlaceBidArrives =>
       \A p \in PostIds : ListedPost(p) =>
         \A r \in Reqs, a \in Amounts :
           PlaceBidStart(r, PostById(p).authorId, p, a)
              => /\ resp'.op = "placeBid"
                 /\ resp'.result = "self_bid"
                 /\ bids' = bids]_vars

\* C9 as amended: placeBid by the author of a listed post is refused and
\* writes no Bid row; the refusal is self_bid for every positive amount (also
\* below or equal to the current highest, also after auctionEndAt), and
\* invalid_amount for an amount that is zero or negative.
C9_SelfBidForEveryPositiveAmount ==
    [][PlaceBidArrives =>
       \A p \in PostIds : ListedPost(p) =>
         \A r \in Reqs, a \in Amounts :
           PlaceBidStart(r, PostById(p).authorId, p, a)
              => /\ resp'.op = "placeBid"
                 /\ resp'.result =
                        (IF a <= 0 THEN "invalid_amount" ELSE "self_bid")
                 /\ bids' = bids]_vars

\* C9 witness: the author was just refused with self_bid for an amount below
\* the current highest of the listed post.
C9_Witness ==
    /\ resp.op = "placeBid"
    /\ resp.result = "self_bid"
    /\ ListedPost(resp.postId)
    /\ BidsOf(resp.postId) # {}
    /\ resp.amount < CurrentHighest(resp.postId)

MarketFieldsNull(x) ==
    /\ ~x.isInMarket
    /\ x.startingPrice = Null
    /\ x.reservePrice = Null
    /\ x.auctionEndAt = Null

\* C10: unlist by the author of a listed post with at least one Bid row is
\* refused with has_bids and changes no post; with zero Bid rows it passes the
\* check, and its write sets isInMarket to false and startingPrice,
\* reservePrice and auctionEndAt to null on the post (which is still there)
\* and answers success.
C10_UnlistBlockedByBids ==
    [][RemoveFromMarketSteps =>
       /\ \A p \in PostIds : ListedPost(p) =>
            \A r \in Reqs :
              RemoveFromMarketStart(r, PostById(p).authorId, p)
                 => IF BidsOf(p) # {}
                    THEN /\ resp'.op = "removeFromMarket"
                         /\ resp'.result = "has_bids"
                         /\ posts' = posts
                    ELSE /\ resp' = NoResponse
                         /\ req'[r].op = "removeFromMarket"
                         /\ req'[r].pc = "write"
       /\ \A r \in Reqs, p \in PostIds :
             (p = req[r].postId /\ PostExists(p) /\ RemoveFromMarketWrite(r))
                 => /\ resp'.op = "removeFromMarket"
                    /\ resp'.result = "unlisted"
                    /\ PostExists(p)'
                    /\ MarketFieldsNull(PostById(p))']_vars

\* C10 witness: the author was just refused with has_bids on a listed post
\* that holds a Bid row.
C10_Witness ==
    /\ resp.op = "removeFromMarket"
    /\ resp.result = "has_bids"
    /\ ListedPost(resp.postId)
    /\ BidsOf(resp.postId) # {}

\* a step of moveToMarket or removeFromMarket: its read and checks, or its write
ListingSteps ==
    \/ resp'.op \in {"moveToMarket", "removeFromMarket"}
    \/ \E r \in Reqs :
          req[r].pc = "idle" /\ req'[r].op \in {"moveToMarket", "removeFromMarket"}

\* the Post row as createPost leaves it: not in market, the three market
\* columns null
AsCreated(x) ==
    [id |-> x.id, authorId |-> x.authorId, isInMarket |-> FALSE,
     startingPrice |-> Null, reservePrice |-> Null, auctionEndAt |-> Null]

\* C11: list then unlist is a round trip.  For every unlisted post and every
\* valid list body (startingPrice > 0, duration > 0, with or without a
\* reservePrice) the author's list request passes its checks, its write stores
\* isInMarket = true with the startingPrice, the reservePrice and the
\* auctionEndAt of the request, and the write of an unlist request (which is
\* reached only with zero bids counted) puts the post back to what it was
\* before the list: isInMarket = false and the three market fields null.
C11_ListUnlistRoundTrip ==
    [][ListingSteps =>
       /\ \A p \in PostIds : (PostExists(p) /\ ~PostById(p).isInMarket) =>
            \A r \in Reqs, b \in ValidListBodies :
              MoveToMarketStart(r, PostById(p).authorId, p, b.startingPrice,
                                b.reservePrice, b.auctionDuration)
                 => /\ resp' = NoResponse
                    /\ req'[r].op = "moveToMarket"
                    /\ req'[r].pc = "write"
                    /\ req'[r].startingPrice = b.startingPrice
                    /\ req'[r].reservePrice = b.reservePrice
                    /\ req'[r].auctionEndAt = now + b.auctionDuration
       /\ \A r \in Reqs, p \in PostIds :
             (p = req[r].postId /\ PostExists(p) /\ MoveToMarketWrite(r))
                 => /\ resp'.result = "listed"
                    /\ PostById(p)' =
                         [AsCreated(PostById(p)) EXCEPT
                            !.isInMarket = TRUE,
                            !.startingPrice = req[r].startingPrice,
                            !.reservePrice = req[r].reservePrice,
                            !.auctionEndAt = req[r].auctionEndAt]
       /\ \A r \in Reqs, p \in PostIds :
             (p = req[r].postId /\ PostExists(p) /\ RemoveFromMarketWrite(r))
                 => /\ resp'.result = "unlisted"
                    /\ PostById(p)' = AsCreated(PostById(p))]_vars

\* C11 witness: a post that never received a bid was listed and has just been
\* unlisted; it is as createPost left it.
C11_Witness ==
    /\ resp.op = "removeFromMarket"
    /\ resp.result = "unlisted"
    /\ nextBidId = 1
    /\ PostExists(resp.postId)
    /\ PostById(resp.postId) = AsCreated(PostById(resp.postId))

\* C12: in every state, a post with isInMarket = false has startingPrice,
\* reservePrice and auctionEndAt null, and a post with isInMarket = true has
\* startingPrice and auctionEndAt non-null (its reservePrice may be null).
C12_MarketFieldsConsistent ==
    \A x \in posts :
        IF x.isInMarket
        THEN x.startingPrice # Null /\ x.auctionEndAt # Null
        ELSE x.startingPrice = Null /\ x.reservePrice = Null
             /\ x.auctionEndAt = Null

\* C12 witness: a post is in market without a reserve price and holds a bid.
C12_Witness ==
    \E x \in posts :
        /\ x.isInMarket
        /\ x.reservePrice = Null
        /\ x.startingPrice # Null
        /\ BidsOf(x.id) # {}

\* C13: while a post has at least one Bid row, no step changes its
\* isInMarket, startingPrice, reservePrice or auctionEndAt.
C13_FrozenOnceBid ==
    [][\A p \in PostIds :
          (PostExists(p) /\ BidsOf(p) # {} /\ PostExists(p)')
              => PostById(p)' = PostById(p)]_vars

\* C14: every step that changes isInMarket, startingPrice, reservePrice or
\* auctionEndAt of a post is the write of a list or unlist request whose
\* caller is the author of the post; a list or unlist request of any other
\* user is refused and changes no post, with not_found whenever the request
\* reaches the lookup of the post (list validates the body first).
C14_OnlyAuthorListsAndUnlists ==
    [][/\ \A p \in PostIds :
            (PostExists(p) /\ PostExists(p)' /\ PostById(p)' # PostById(p))
               => \E r \in Reqs :
                    /\ req[r].op \in {"moveToMarket", "removeFromMarket"}
                    /\ req[r].pc = "write"
                    /\ req[r].postId = p
                    /\ req[r].userId = PostById(p).authorId
                    /\ req'[r] = Idle
       /\ ListingSteps =>
            \A p \in PostIds : PostExists(p) =>
              \A r \in Reqs, u \in Users \ {PostById(p).authorId} :
                /\ \A b \in ListBodies :
                     MoveToMarketStart(r, u, p, b.startingPrice,
                                       b.reservePrice, b.auctionDuration)
                        => /\ resp'.op = "moveToMarket"
                           /\ posts' = posts
                           /\ resp'.result =
                                 (IF InvalidPrice(b.startingPrice)
                                  THEN "invalid_price"
                                  ELSE IF InvalidDuration(b.auctionDuration)
                                  THEN "invalid_duration"
                                  ELSE "not_found")
                /\ RemoveFromMarketStart(r, u, p)
                        => /\ resp'.op = "removeFromMarket"
                           /\ resp'.result = "not_found"
                           /\ posts' = posts]_vars

\* C14 witness: a user who is not the author has just been refused with
\* not_found on a post that is in market; the post is still in market.
C14_Witness ==
    /\ resp.op = "removeFromMarket"
    /\ resp.result = "not_found"
    /\ ListedPost(resp.postId)

\* what the scenario expects of its k-th bid: the answer, and the Bid rows of
\* P once it has been answered, as <<id, bidder, amount>>
ScenarioExpected ==
    << [result |-> "accepted", rows |-> {<<1, "A", 150>>},
        leader |-> <<"A", 150>>],
       [result |-> "bid_too_low", rows |-> {<<1, "A", 150>>},
        leader |-> <<"A", 150>>],
       [result |-> "accepted", rows |-> {<<1, "A", 150>>, <<2, "B", 151>>},
        leader |-> <<"B", 151>>],
       [result |-> "bid_too_low",
        rows |-> {<<1, "A", 150>>, <<2, "B", 151>>},
        leader |-> <<"B", 151>>],
       [result |-> "accepted", rows |-> {<<1, "A", 200>>, <<2, "B", 151>>},
        leader |-> <<"A", 200>>] >>

\* C15: in the scenario (P listed with startingPrice 100 for one hour, no
\* bids; then A bids 150, B bids 150, B bids 151, A bids 140, A bids 200, each
\* sent after the answer to the one before) the answers are accepted,
\* bid_too_low, accepted, bid_too_low, accepted; after each answer the leader
\* is A/150, A/150, B/151, B/151, A/200; and at the end P has exactly two Bid
\* rows, A's being the row of A's first bid with a new amount.
C15_ScenarioOutcome ==
    \A k \in 1..Len(ScenarioBids) :
        (script = k /\ Quiet /\ resp.op = "placeBid")
            => /\ resp.result = ScenarioExpected[k].result
               /\ {<<b.id, b.bidderId, b.amount>> : b \in BidsOf(1)}
                     = ScenarioExpected[k].rows
               /\ {<<b.bidderId, b.amount>> : b \in TopBids(1)}
                     = {ScenarioExpected[k].leader}
               /\ \A b \in BidsOf(1) :
                     b.createdAt = PostById(1).auctionEndAt - 1

\* C15 witness: the last bid of the scenario has been accepted and P has two
\* Bid rows.
C15_Witness ==
    /\ script = Len(ScenarioBids)
    /\ Quiet
    /\ resp.op = "placeBid"
    /\ resp.result = "accepted"
    /\ Cardinality(BidsOf(1)) = 2

\* C16: whenever getAuctionDetails answers for a listed post, currentBid is
\* the maximum amount stored in the Bid rows of the post (startingPrice when
\* it has none) and highestBidder is the bidder of a row that holds that
\* maximum (nobody when it has none).
C16_DetailReportsMaximum ==
    (resp.op = "getAuctionDetails" /\ resp.result = "ok")
        => /\ resp.currentBid = CurrentHighest(resp.postId)
           /\ IF BidsOf(resp.postId) = {} THEN resp.highestBidder = "none"
              ELSE \E b \in TopBids(resp.postId) :
                     b.bidderId = resp.highestBidder

\* C17: for every Bid row that getUserBids returns, isWinning is true exactly
\* when the row is the leading row of its post (its id is the id of the top
\* row the post was joined with), and hasWon is true exactly when the auction
\* of the post has ended and isWinning is true.
C17_WinningIsLeadingRow ==
    resp.op = "getUserBids"
        => \A row \in resp.bids :
             /\ row.isWinning <=> (row.id = row.topId)
             /\ row.hasWon <=> (row.auctionStatus = "ended" /\ row.isWinning)

\* the leader of a post: the row with the maximum amount, the earliest
\* created one when several rows hold it
Leader(p) ==
    CHOOSE b \in TopBids(p) : \A c \in TopBids(p) \ {b} : Newer(c, b)

\* the auction of p has ended: p is in market and now is past its auctionEndAt
EndedAuction(p) ==
    /\ ListedPost(p)
    /\ PostById(p).auctionEndAt # Null
    /\ now > PostById(p).auctionEndAt

\* C18: once the auction of a listed post has ended with a bidder holding the
\* leading bid, no step changes the leader of the post: the rows that hold
\* its maximum amount stay the same rows of the same bidders.
C18_LeaderOfEndedAuctionStays ==
    [][\A p \in PostIds :
          (EndedAuction(p) /\ BidsOf(p) # {})
              => {<<b.id, b.bidderId>> : b \in TopBids(p)}'
                    = {<<b.id, b.bidderId>> : b \in TopBids(p)}]_vars

\* C19: whenever two or more Bid rows of a post hold its maximum amount, a read
\* that joins the post with its top bid (getMarketPosts, getUserBids) gets the
\* row with the earliest createdAt among them.
C19_TieGoesToEarliest ==
    [][\A r \in Reqs :
          (req[r].pc = "idle"
             /\ req'[r].op \in {"getMarketPosts", "getUserBids"})
              => \A row \in req'[r].rows :
                   Cardinality(TopBids(row.postId)) >= 2
                       => row.topId = Leader(row.postId).id]_vars

\* the posts that are in market and whose auction has ended
EndedInMarket ==
    {x \in posts :
        x.isInMarket /\ x.auctionEndAt # Null /\ x.auctionEndAt < now}

C22_RejectionChangesNothing ==
    [][(resp'.op = "placeBid" /\ resp'.result \in Rejections) =>
         \A r \in Reqs, u \in Users, p \in PostIds, a \in Amounts :
            (/\ p = resp'.postId
             /\ a = resp'.amount
             /\ PlaceBidResult(u, p, a) \in Rejections
             /\ PlaceBidStart(r, u, p, a))
              => /\ resp'.result = PlaceBidResult(u, p, a)
                 /\ req'[r] = Idle
                 /\ bids' = bids
                 /\ posts' = posts
                 /\ PlaceBidResult(u, p, a)' = PlaceBidResult(u, p, a)]_vars

\* C22 witness: placeBid has just refused a bid on a listed post that holds a
\* Bid row, because the auction is over or because the bid is too low.
C22_Witness ==
    /\ resp.op = "placeBid"
    /\ resp.result \in {"auction_ended", "bid_too_low"}
    /\ ListedPost(resp.postId)
    /\ BidsOf(resp.postId) # {}

\* C23: when the bidder of a placeBid request already has a Bid row on the
\* post, the lookup of the request finds a row of that bidder on that post,
\* and the accepted request changes only the amount of that row: no row is
\* added or removed, the post keeps its number of Bid rows, and every other
\* row and every post stay as they were.
C23_RebidChangesOnlyAmount ==
    [][\A r \in Reqs :
          req[r].op = "placeBid" =>
            /\ (/\ req[r].pc = "findExisting"
                /\ req'[r].pc = "write"
                /\ \E b \in BidsOf(req[r].postId) : b.bidderId = req[r].userId)
                  => \E b \in BidsOf(req[r].postId) :
                       /\ b.bidderId = req[r].userId
                       /\ b.id = req'[r].existing
            /\ (/\ req[r].pc = "write"
                /\ req[r].existing # Null
                /\ req'[r].pc = "idle"
                /\ resp'.result = "accepted")
                  => \E old \in BidsOf(req[r].postId) :
                       /\ old.id = req[r].existing
                       /\ old.bidderId = req[r].userId
                       /\ bids' = (bids \ {old})
                                    \cup {[old EXCEPT !.amount = req[r].amount]}
                       /\ Cardinality(bids') = Cardinality(bids)
                       /\ posts' = posts]_vars

\* C23 witness: a bid has just been accepted on a post whose only Bid row is
\* older than the answer and carries the amount of the request, so the
\* request raised the row the bidder already had.
C23_Witness ==
    /\ resp.op = "placeBid"
    /\ resp.result = "accepted"
    /\ Cardinality(BidsOf(resp.postId)) = 1
    /\ \A b \in BidsOf(resp.postId) :
          b.amount = resp.amount /\ b.createdAt < now

\* C24: a moveToMarket request that fails changes no Post row, and no step of
\* moveToMarket changes the row of a post that is already in market: a list
\* request never overwrites startingPrice, reservePrice or auctionEndAt of a
\* listed post, also when two list requests run at the same time.
C24_ListedPostNeverOverwritten ==
    [][resp'.op = "moveToMarket" =>
         /\ resp'.result # "listed" => posts' = posts
         /\ \A p \in PostIds :
              ListedPost(p) => (PostExists(p)' /\ PostById(p)' = PostById(p))]_vars

\* the Post row with its reserve price blanked
WithoutReserve(x) == [x EXCEPT !.reservePrice = Null]

\* the answer of placeBid worked out from the post with its reserve price
\* blanked, the Bid rows of the post and the clock
ResultWithoutReserve(u, p, a) ==
    IF InvalidAmount(a) THEN "invalid_amount"
    ELSE IF ~PostExists(p) THEN "not_found"
    ELSE LET post == WithoutReserve(PostById(p))
             amounts == {b.amount : b \in BidsOf(p)}
             highest == IF amounts = {} THEN post.startingPrice
                        ELSE MaxOf(amounts)
         IN  IF NotInMarket(post) THEN "not_listed"
             ELSE IF SelfBid(post, u) THEN "self_bid"
             ELSE IF AuctionEnded(now, post.auctionEndAt) THEN "auction_ended"
             ELSE IF BidTooLow(a, highest) THEN "bid_too_low"
             ELSE "pass"

\* C26: the reserve price has no part in bidding. The answer placeBid gives to
\* a request is the one worked out with the reserve price of the post blanked,
\* so two posts that differ only in reservePrice answer alike; a bid above the
\* current highest passes also when it is below reservePrice; and the row an
\* accepted bid writes carries the amount of the request.
C26_ReserveHasNoPartInBidding ==
    [][/\ PlaceBidArrives =>
           \A r \in Reqs, u \in Users, p \in PostIds, a \in Amounts :
              (/\ \/ resp'.op = "placeBid" /\ p = resp'.postId
                                           /\ a = resp'.amount
                  \/ /\ req[r].pc = "idle"
                     /\ req'[r].pc = "findExisting"
                     /\ p = req'[r].postId
                     /\ a = req'[r].amount
                     /\ u = req'[r].userId
               /\ PlaceBidStart(r, u, p, a))
                => IF ResultWithoutReserve(u, p, a) = "pass"
                   THEN req'[r].pc = "findExisting"
                   ELSE resp'.result = ResultWithoutReserve(u, p, a)
       /\ \A r \in Reqs :
            (/\ req[r].op = "placeBid"
             /\ req[r].pc = "write"
             /\ req'[r].pc = "idle"
             /\ resp'.result = "accepted")
               => \E b \in bids' :
                    /\ b.postId = req[r].postId
                    /\ b.bidderId = req[r].userId
                    /\ b.amount = req[r].amount
                    /\ bids' \ {b} \subseteq bids]_vars

\* C26 witness: a bid below the reserve price of the post has just been
\* accepted.
C26_Witness ==
    /\ resp.op = "placeBid"
    /\ resp.result = "accepted"
    /\ ListedPost(resp.postId)
    /\ resp.amount < PostById(resp.postId).reservePrice
    /\ \E b \in BidsOf(resp.postId) : b.amount = resp.amount

\* the answer of placeBid worked out from one Post row x, a set of Bid rows
\* and the clock t
ResultFromRows(x, rows, t, u, a) ==
    IF InvalidAmount(a) THEN "invalid_amount"
    ELSE IF NotInMarket(x) THEN "not_listed"
    ELSE IF SelfBid(x, u) THEN "self_bid"
    ELSE IF AuctionEnded(t, x.auctionEndAt) THEN "auction_ended"
    ELSE IF BidTooLow(a, IF rows = {} THEN x.startingPrice
                         ELSE MaxOf({b.amount : b \in rows}))
         THEN "bid_too_low"
    ELSE "pass"

\* the post a step of placeBid works on: Null when the step is not one
PlaceBidStepPost ==
    IF resp'.op = "placeBid" THEN resp'.postId
    ELSE IF \E r \in Reqs : req'[r] # req[r] /\ req'[r].op = "placeBid"
         THEN (CHOOSE x \in {req'[r].postId : 
                               r \in {q \in Reqs : /\ req'[q] # req[q]
                                                   /\ req'[q].op = "placeBid"}} :
                 TRUE)
    ELSE Null

\* C25: a placeBid request on post P depends on and touches the rows of P
\* only. The answer to the request is the one worked out from the Post row of
\* P, the Bid rows of P and the clock; the row it looks up for the bidder is a
\* row of P; and every step of the request leaves the Post row and the Bid
\* rows of every other post as they were.
C25_OtherPostsUntouched ==
    [][/\ PlaceBidArrives =>
           \A r \in Reqs, u \in Users, p \in PairPostIds, a \in PairAmounts :
              (/\ \/ resp'.op = "placeBid" /\ p = resp'.postId
                                           /\ a = resp'.amount
                  \/ /\ req[r].pc = "idle"
                     /\ req'[r].pc = "findExisting"
                     /\ p = req'[r].postId
                     /\ a = req'[r].amount
                     /\ u = req'[r].userId
               /\ PlaceBidStart(r, u, p, a))
                => LET x == CHOOSE y \in posts : y.id = p
                       rows == {b \in bids : b.postId = p}
                   IN  IF ResultFromRows(x, rows, now, u, a) = "pass"
                       THEN req'[r].pc = "findExisting"
                       ELSE resp'.result = ResultFromRows(x, rows, now, u, a)
       /\ \A r \in Reqs :
            (req[r].pc = "findExisting" /\ req'[r].pc = "write"
               /\ req'[r].existing # Null)
              => \E b \in bids : /\ b.id = req'[r].existing
                                 /\ b.postId = req[r].postId
       /\ PlaceBidStepPost # Null =>
            \A q \in PairPostIds \ {PlaceBidStepPost} :
               /\ {b \in bids' : b.postId = q} = {b \in bids : b.postId = q}
               /\ {x \in posts' : x.id = q} = {x \in posts : x.id = q}]_vars

\* C25 witness: a bid has just been accepted on one post while a request that
\* has read the other post is waiting to write to it, and the other post
\* holds a Bid row.
C25_Witness ==
    /\ resp.op = "placeBid"
    /\ resp.result = "accepted"
    /\ \E q \in PairPostIds \ {resp.postId} :
          /\ \E b \in bids : b.postId = q
          /\ \E r \in Reqs : req[r].pc = "write" /\ req[r].postId = q

\* C27: getPurchasedImage answers with the clean image only when the caller is
\* the author of the post, or holds the leading bid of the post while the post
\* is in market and its auction is over (now >= auctionEndAt); a caller whose
\* bid is not the leading one, or whose auction is still running, is refused.
C27_CleanImageOnlyForAuthorOrBuyer ==
    (resp.op = "getPurchasedImage" /\ resp.result = "granted")
      => /\ PostExists(resp.postId)
         /\ \/ PostById(resp.postId).authorId = resp.userId
            \/ /\ ListedPost(resp.postId)
               /\ now >= PostById(resp.postId).auctionEndAt
               /\ \E b \in TopBids(resp.postId) : b.bidderId = resp.userId

\* C28: every stored Bid row has a positive amount, and an amount strictly
\* greater than the startingPrice its post has now.
C28_BidsAboveStartingPrice ==
    \A b \in bids :
        /\ b.amount > 0
        /\ (PostExists(b.postId) /\ PostById(b.postId).startingPrice # Null)
              => b.amount > PostById(b.postId).startingPrice

\* C29: at every instant the operations agree on whether the auction of a
\* listed post is active: placeBid passes its expiry check exactly when
\* getAuctionDetails reports isActive, exactly when the status=active filter
\* of getMarketPosts keeps the post, exactly when getUserBids calls the
\* auction active; getMarketStats counts the post in exactly one of active
\* and ended; and an answer of getAuctionDetails carries the isActive that
\* placeBid's expiry check gives at that instant.
C29_OneNotionOfActive ==
    /\ \A p \in PostIds :
          ListedPost(p) =>
            LET e == PostById(p).auctionEndAt
            IN  /\ (~AuctionEnded(now, e)) <=> (TimeLeft(e, now) > 0)
                /\ (TimeLeft(e, now) > 0) <=> StatusMatches("active", e, now)
                /\ StatusMatches("active", e, now)
                      <=> ~UserBidAuctionEnded(now, e)
                /\ StatusMatches("active", e, now)
                      # StatusMatches("ended", e, now)
    /\ (resp.op = "getAuctionDetails" /\ resp.result = "ok")
          => (resp.isActive
                <=> ~AuctionEnded(now, PostById(resp.postId).auctionEndAt))

\* C30: deletePost never destroys a bid. No step of deletePost removes a Bid
\* row or the post of a Bid row, a deletePost request that finds a Bid row on
\* the post it is about to delete is refused, and after every step every Bid
\* row references a post that exists.
C30_DeletePostKeepsBids ==
    [][/\ resp'.op = "deletePost" =>
            /\ \A b \in bids : \E c \in bids' : c.id = b.id
            /\ \A b \in bids : PostExists(b.postId) => PostExists(b.postId)'
            /\ resp'.result = "deleted" => BidsOf(resp'.postId) = {}
       /\ \A b \in bids' : PostExists(b.postId)']_vars

\* C21: every listing of getMarketPosts carries as currentBid the maximum
\* amount stored in the Bid rows of its post at the moment of the query
\* (startingPrice when the post has none), and as timeLeft
\* max(0, auctionEndAt - now) at the moment of the answer, never a negative
\* number.
C21_ListingPriceAndTimeLeft ==
    [][\A r \in Reqs :
          /\ (req[r].pc = "idle" /\ req'[r].op = "getMarketPosts")
                => \A row \in req'[r].rows :
                     /\ ListedPost(row.postId)
                     /\ row.currentBid = CurrentHighest(row.postId)
                     /\ row.auctionEndAt = PostById(row.postId).auctionEndAt
          /\ (req[r].op = "getMarketPosts" /\ req'[r].pc = "idle")
                => /\ {l.postId : l \in resp'.posts}
                        = {row.postId : row \in req[r].rows}
                   /\ \A l \in resp'.posts : \E row \in req[r].rows :
                        /\ row.postId = l.postId
                        /\ l.currentBid = row.currentBid
                        /\ l.timeLeft >= 0
                        /\ l.timeLeft =
                             (IF row.auctionEndAt > now
                              THEN row.auctionEndAt - now ELSE 0)]_vars

\* C21 witness: getMarketPosts has just answered with a listing whose auction
\* is over (timeLeft 0) and whose currentBid is the maximum of its bids.
C21_Witness ==
    /\ resp.op = "getMarketPosts"
    /\ \E l \in resp.posts :
          /\ l.timeLeft = 0
          /\ ListedPost(l.postId)
          /\ now > PostById(l.postId).auctionEndAt
          /\ BidsOf(l.postId) # {}
          /\ l.currentBid = MaxBidAmount(l.postId)
====
